---- MODULE Spec2Model ----
(***************************************************************************)
(* FAHREN: a model handle (fahren_init / fahren_shutdown) and the writer   *)
(* of an initial random-weights blob (fahren_write_random_weights).        *)
(*                                                                         *)
(* Integer widths are kept, scaled down: `int` has IntBits bits and        *)
(* size_t has twice as many (32 and 64 on the LP64 targets of the code),   *)
(* so that, as there, a product of two non-negative ints is less than a    *)
(* quarter of the size_t range, while nine times such a product, or four   *)
(* times the sum of a few of them, is beyond it.                           *)
(***************************************************************************)
EXTENDS Integers, Sequences, FiniteSets, TLC

VARIABLES
    cm,      \* the caller's FAHREN struct
    mem,     \* the caller's layer array on the heap (fahren_alloc_layers)
    files,   \* the current working directory: name -> file
    ret      \* what the last API call returned and did

vars == <<cm, mem, files, ret>>

----------------------------------------------------------------------------
(* Bounds of the model *)

IntBits == 6
MaxLayers == 2

(* Machine arithmetic *)

SizeBits == 2 * IntBits
SizeMod == 2 ^ SizeBits
SIZE_MAX == SizeMod - 1
INT_MAX == 2 ^ (IntBits - 1) - 1
SizeofFloat == 4

(* Program constants *)

FAHREN_VERSION_MAJOR == 1
FAHREN_VERSION_MINOR == 0
FAHREN_VERSION_PATCH == 0
Magic == 1178683470          \* 0x4641484E, 'FAHN'
KernelFactor == 9            \* 3x3 kernels
PrefixLen == 7               \* strncmp(name, "fahren_", 7)
SuffixLen == 4               \* ".bin"

FAHREN_SUCCESS == "Success"
FAHREN_ERROR_INVALID_ARGUMENT == "InvalidArgument"
FAHREN_ERROR_NOT_INITIALIZED == "NotInitialized"
FAHREN_ERROR_PROCESSING_FAILED == "ProcessingFailed"

FAHREN_LAYER_DENSE == "Dense"
FAHREN_LAYER_CONVOLUTIONAL == "Convolutional"

DefaultPath == "fahren_initial_model.bin"
NoPath == "NULL"

----------------------------------------------------------------------------
(* Layers.  previous_layer is modelled as the 1-based index of the layer   *)
(* pointed to, 0 for a null pointer; the code does not require it to be    *)
(* an earlier layer.                                                       *)

Layer(d, p, t) == [density |-> d, previous_layer |-> p, layer_type |-> t]

\* (size_t)x for an int x: the value modulo 2^SizeBits
CastSize(x) == x % SizeMod

\* size_t multiplication and the byte size handed to malloc
SizeMul(a, b) == (a * b) % SizeMod

\* in_dim taken from the layer before in the array instead of previous_layer
InDimPositional(layers, i) ==
    IF i > 1 THEN CastSize(layers[i - 1].density) ELSE 1

\* line 113 / 145: in_dim
InDim(layers, i) ==
    IF layers[i].previous_layer # 0
    THEN CastSize(layers[layers[i].previous_layer].density)
    ELSE 1

\* line 114 / 146: out_dim
OutDim(layers, i) == CastSize(layers[i].density)

\* lines 115-118 / 147-148: layer_weights
LayerWeights(layers, i) ==
    LET base == SizeMul(InDim(layers, i), OutDim(layers, i))
    IN  IF layers[i].layer_type = FAHREN_LAYER_CONVOLUTIONAL
        THEN SizeMul(base, KernelFactor)
        ELSE base

\* line 119 / 122: the additive check before each accumulation
AddOverflows(x, total) == x > SIZE_MAX - total

\* lines 109-124: the counting loop, from layer i on, with the running
\* totals tw and tb; ok = FALSE is the early return ProcessingFailed
RECURSIVE CountFrom(_, _, _, _, _)
CountFrom(layers, n, i, tw, tb) ==
    IF i > n THEN [ok |-> TRUE, total_weights |-> tw, total_biases |-> tb]
    ELSE LET lw == LayerWeights(layers, i)
             od == OutDim(layers, i)
         IN  IF AddOverflows(lw, tw)
             THEN [ok |-> FALSE, total_weights |-> tw, total_biases |-> tb]
             ELSE IF AddOverflows(od, tb)
             THEN [ok |-> FALSE, total_weights |-> tw + lw, total_biases |-> tb]
             ELSE CountFrom(layers, n, i + 1, tw + lw, tb + od)

CountParams(layers, n) == CountFrom(layers, n, 1, 0, 0)

\* lines 130 / 134: the size requested from malloc
AllocBytes(count) == SizeMul(count, SizeofFloat)

\* lines 142-155: the fill loop; the final widx and bidx
RECURSIVE FillFrom(_, _, _, _, _)
FillFrom(layers, n, i, widx, bidx) ==
    IF i > n THEN [widx |-> widx, bidx |-> bidx]
    ELSE FillFrom(layers, n, i + 1,
                  widx + LayerWeights(layers, i), bidx + OutDim(layers, i))

FillIndices(layers, n) == FillFrom(layers, n, 1, 0, 0)

----------------------------------------------------------------------------
(* Files.  A regular file holds a sequence of items, each a fixed-width    *)
(* integer, an array of floats (random values: only their number is kept)  *)
(* or foreign bytes.                                                       *)

U32(v) == [t |-> "u32", v |-> v]
U64(v) == [t |-> "u64", v |-> v]
Floats(n) == [t |-> "f32", v |-> n]
Raw(n) == [t |-> "raw", v |-> n]

Absent == [kind |-> "absent", data |-> <<>>]
Dir == [kind |-> "dir", data |-> <<>>]
Reg(data) == [kind |-> "reg", data |-> data]

ItemSize(it) ==
    CASE it.t = "u32" -> 4
      [] it.t = "u64" -> 8
      [] it.t = "f32" -> SizeofFloat * it.v
      [] OTHER -> it.v

RECURSIVE DataSize(_)
DataSize(data) ==
    IF data = <<>> THEN 0 ELSE ItemSize(Head(data)) + DataSize(Tail(data))

\* lines 166-171: the header fields, in the order lines 173-178 write them
Header(tw, tb) ==
    << U32(Magic), U32(FAHREN_VERSION_MAJOR), U32(FAHREN_VERSION_MINOR),
       U32(FAHREN_VERSION_PATCH), U64(tw), U64(tb) >>

\* lines 173-186: what the fwrite calls hand to the stream, one item a call
BlobItems(tw, tb) ==
    Header(tw, tb)
      \o (IF tw > 0 THEN <<Floats(tw)>> ELSE <<>>)
      \o (IF tb > 0 THEN <<Floats(tb)>> ELSE <<>>)

\* fopen(path, "ab"): an existing file keeps what it holds
OpenAppend(fs, path) ==
    IF fs[path].kind = "reg" THEN fs ELSE [fs EXCEPT ![path] = Reg(<<>>)]

\* line 158: fopen(path, "wb") creates the file or truncates it to nothing;
\* a directory cannot be opened for writing
CanOpen(fs, path) == fs[path].kind # "dir"

OpenTruncate(fs, path) == [fs EXCEPT ![path] = Reg(<<>>)]

\* lines 188 / 194: fclose(f), its result unused.  The stream is buffered:
\* the items the fwrite calls accepted are added to the opened file when
\* the flush succeeds, and are lost when it fails.
CloseStream(fs, path, accepted, flushed) ==
    [fs EXCEPT ![path] = Reg(@.data \o (IF flushed THEN accepted ELSE <<>>))]

----------------------------------------------------------------------------
(* The two buffers of one fahren_write_random_weights call.                *)

NoBuffers == [w |-> [alloc |-> FALSE, frees |-> 0],
              b |-> [alloc |-> FALSE, frees |-> 0]]

\* malloc returned a non-null pointer for the buffer
Malloc(h, which) == [h EXCEPT ![which].alloc = TRUE]

\* free(p): nothing for a null pointer
FreeBuf(h, which) ==
    IF h[which].alloc THEN [h EXCEPT ![which].frees = @ + 1] ELSE h

\* the bias allocation failing without the weight buffer being freed
ExitBiasAllocLeaks(h) == h

\* line 136
ExitBiasAllocFailed(h) == FreeBuf(h, "w")
\* lines 160-161
ExitOpenFailed(h) == FreeBuf(FreeBuf(h, "w"), "b")
\* lines 189-190
ExitSuccess(h) == FreeBuf(FreeBuf(h, "w"), "b")
\* lines 195-196
ExitIoError(h) == FreeBuf(FreeBuf(h, "w"), "b")

\* lines 149-154: a store beyond the bytes malloc was asked for
StoresOutOfBounds(count, idx) == idx * SizeofFloat > AllocBytes(count)

----------------------------------------------------------------------------
(* The environment of one write: the step that fails, if any.              *)
(*   at = "mallocW" / "mallocB" : that malloc returns NULL                 *)
(*   at = "fopen"               : fopen returns NULL                       *)
(*   at = "fwrite", k           : the k-th fwrite call returns short       *)
(*   at = "fclose"              : every fwrite succeeds, the flush fails   *)
(*   flush                      : whether fclose's flush succeeds          *)
(*   crash                      : an out-of-bounds store kills the process *)

Env(at, k, flush, crash) == [at |-> at, k |-> k, flush |-> flush, crash |-> crash]

\* the fwrite calls of one write: six header fields and two arrays
MaxItems == Len(BlobItems(1, 1))

WriteEnv ==
    { Env(at, 0, TRUE, FALSE) : at \in {"none", "mallocW", "mallocB", "fopen"} }
    \cup { Env("none", 0, TRUE, TRUE) }
    \cup { Env("fwrite", k, TRUE, FALSE) : k \in 1..MaxItems }
    \cup { Env("fwrite", MaxItems, FALSE, FALSE), Env("fclose", 0, FALSE, FALSE) }

NoWrite ==
    [status |-> "none", path |-> NoPath, counted |-> FALSE,
     total_weights |-> 0, total_biases |-> 0,
     heap |-> NoBuffers, widx |-> 0, bidx |-> 0,
     oob |-> FALSE, nullStore |-> FALSE, opened |-> FALSE]

WResult(status, path, fs, rest) == [w |-> [rest EXCEPT !.status = status, !.path = path], files |-> fs]

\* lines 157-197: open, write the header and the buffers, close, free
WriteBlob(path, fs, e, r) ==
    IF ~CanOpen(fs, path) \/ e.at = "fopen"
    THEN WResult(FAHREN_ERROR_PROCESSING_FAILED, path, fs,
                 [r EXCEPT !.heap = ExitOpenFailed(r.heap)])
    ELSE LET items == BlobItems(r.total_weights, r.total_biases)
             failed == e.at = "fwrite" /\ e.k <= Len(items)
             accepted == IF failed THEN SubSeq(items, 1, e.k - 1) ELSE items
             fs2 == CloseStream(OpenTruncate(fs, path), path, accepted, e.flush)
         IN  IF failed
             THEN WResult(FAHREN_ERROR_PROCESSING_FAILED, path, fs2,
                          [r EXCEPT !.opened = TRUE, !.heap = ExitIoError(r.heap)])
             ELSE WResult(FAHREN_SUCCESS, path, fs2,
                          [r EXCEPT !.opened = TRUE, !.heap = ExitSuccess(r.heap)])

\* lines 141-155, then the rest of the call
FillAndWrite(layers, n, path, fs, e, r) ==
    LET idx == FillIndices(layers, n)
        oob == (r.heap.w.alloc /\ StoresOutOfBounds(r.total_weights, idx.widx))
               \/ (r.heap.b.alloc /\ StoresOutOfBounds(r.total_biases, idx.bidx))
        nul == (~r.heap.w.alloc /\ idx.widx > 0) \/ (~r.heap.b.alloc /\ idx.bidx > 0)
        r2 == [r EXCEPT !.widx = idx.widx, !.bidx = idx.bidx,
                        !.oob = oob, !.nullStore = nul]
    IN  IF (oob \/ nul) /\ e.crash
        THEN WResult("Crashed", path, fs, r2)
        ELSE WriteBlob(path, fs, e, r2)

\* lines 126-139: the two allocations
Allocate(layers, n, path, fs, e, r) ==
    IF r.total_weights > 0 /\ e.at = "mallocW"
    THEN WResult(FAHREN_ERROR_PROCESSING_FAILED, path, fs, r)
    ELSE LET h1 == IF r.total_weights > 0 THEN Malloc(r.heap, "w") ELSE r.heap
         IN  IF r.total_biases > 0 /\ e.at = "mallocB"
             THEN WResult(FAHREN_ERROR_PROCESSING_FAILED, path, fs,
                          [r EXCEPT !.heap = ExitBiasAllocFailed(h1)])
             ELSE LET h2 == IF r.total_biases > 0 THEN Malloc(h1, "b") ELSE h1
                  IN  FillAndWrite(layers, n, path, fs, e, [r EXCEPT !.heap = h2])

\* line 106
WriteArgsInvalid(cmPresent, path) == ~cmPresent \/ path = NoPath

\* line 107
WriteNotInitialized(c) == c.initialized = 0

\* lines 105-198: fahren_write_random_weights(cm, path) on handle c whose
\* layer array holds `layers`, in directory fs, under environment e
WriteRandomWeights(cmPresent, c, layers, path, fs, e) ==
    IF WriteArgsInvalid(cmPresent, path)
    THEN WResult(FAHREN_ERROR_INVALID_ARGUMENT, path, fs, NoWrite)
    ELSE IF WriteNotInitialized(c)
    THEN WResult(FAHREN_ERROR_NOT_INITIALIZED, path, fs, NoWrite)
    ELSE LET cnt == CountParams(layers, c.layer_count)
             r == [NoWrite EXCEPT !.total_weights = cnt.total_weights,
                                  !.total_biases = cnt.total_biases]
         IN  IF ~cnt.ok
             THEN WResult(FAHREN_ERROR_PROCESSING_FAILED, path, fs, r)
             ELSE Allocate(layers, c.layer_count, path, fs, e,
                           [r EXCEPT !.counted = TRUE])

----------------------------------------------------------------------------
(* fahren_shutdown's scan of the current working directory.                *)

\* line 83: strncmp(name, "fahren_", 7) == 0
HasLibraryPrefix(name) ==
    Len(name) >= PrefixLen /\ SubSeq(name, 1, PrefixLen) = "fahren_"

\* line 85: len >= 4 && strcmp(name + len - 4, ".bin") == 0
IsBinary(name) ==
    Len(name) >= SuffixLen
    /\ SubSeq(name, Len(name) - SuffixLen + 1, Len(name)) = ".bin"

\* the scan without the test that keeps the binaries
IsTransientNoKeep(name) == HasLibraryPrefix(name)

\* lines 83-86: the entries unlink is called on
IsTransient(name) == HasLibraryPrefix(name) /\ ~IsBinary(name)

\* line 86: unlink(name), its result unused; it removes a regular file of a
\* writable directory and fails on a directory
Unlink(f, writable) == IF f.kind = "reg" /\ writable THEN Absent ELSE f

\* lines 77-89: opendir, the readdir loop, closedir
CleanDirectory(fs, opened, writable) ==
    IF ~opened THEN fs
    ELSE [name \in DOMAIN fs |->
            IF fs[name].kind # "absent" /\ IsTransient(name)
            THEN Unlink(fs[name], writable)
            ELSE fs[name]]

----------------------------------------------------------------------------
(* State *)

\* the names of the directory the model follows
StrayNames ==
    { "fahren_", "fahren_.bin", "fahren_cache", "fahren_log.bin.tmp",
      "notes.txt", "model.bin", "my_fahren_tmp" }
WritePaths == { DefaultPath, "fahren_weights.dat" }
Names == StrayNames \cup WritePaths

ZeroHandle == [initialized |-> 0, layer_count |-> 0, model_type |-> 0,
               layers |-> "NULL"]
NoArray == [state |-> "none", content |-> <<>>, frees |-> 0]

NoArgs == [cm |-> TRUE, layers |-> FALSE, layer_count |-> 0, path |-> NoPath]
NoDir == [opened |-> FALSE, writable |-> FALSE]
Ret(op, status, args, w, dir) ==
    [op |-> op, status |-> status, args |-> args, w |-> w, dir |-> dir]

\* a stray file of the directory before the library runs
StrayFile(name) == IF name = "fahren_cache" THEN Dir ELSE Reg(<<Raw(Len(name))>>)

Running == ret.status # "Crashed"

----------------------------------------------------------------------------
(* Operations *)

\* lines 53-57: fahren_alloc_layers(count), then the caller's filling of the
\* zeroed entries; calloc may return NULL
AllocLayers(seq, callocOk) ==
    /\ Running
    /\ mem.state # "live"
    /\ mem' = IF Len(seq) = 0 \/ ~callocOk THEN mem
              ELSE [state |-> "live", content |-> seq, frees |-> 0]
    /\ ret' = Ret("alloc", IF Len(seq) = 0 \/ ~callocOk THEN "NULL" ELSE "array",
                  [NoArgs EXCEPT !.layer_count = Len(seq)], NoWrite, NoDir)
    /\ UNCHANGED <<cm, files>>

\* the argument check without layer_count == 0
InitArgsInvalidNoCount(cmPresent, layersPresent, n) ==
    ~cmPresent \/ ~layersPresent

\* line 36
InitArgsInvalid(cmPresent, layersPresent, n) ==
    ~cmPresent \/ ~layersPresent \/ n = 0

\* the handle with the flag still unset when the write of line 46 starts
InitHandleFlagLate(c, n) ==
    [c EXCEPT !.model_type = 0, !.layer_count = n, !.layers = "array"]

\* lines 39-43: the handle as the write of line 46 sees it
InitHandle(c, n) ==
    [c EXCEPT !.model_type = 0, !.layer_count = n, !.layers = "array",
              !.initialized = 1]

\* lines 39-48: the handle when fahren_init returns
InitFinal(c, n) == InitHandle(c, n)

\* line 48
InitStatus(inner) == FAHREN_SUCCESS

\* lines 35-49: fahren_init(cm, model_type, layer_count, layers)
FahrenInit(cmPresent, layersPresent, n, e) ==
    /\ Running
    /\ layersPresent => mem.state = "live" /\ n \in {0, Len(mem.content)}
    /\ ~layersPresent => n \in 0..MaxLayers
    /\ LET args == [cm |-> cmPresent, layers |-> layersPresent,
                    layer_count |-> n, path |-> NoPath]
       IN  IF InitArgsInvalid(cmPresent, layersPresent, n)
           THEN /\ ret' = Ret("init", FAHREN_ERROR_INVALID_ARGUMENT, args, NoWrite, NoDir)
                /\ UNCHANGED <<cm, mem, files>>
           ELSE LET res == WriteRandomWeights(TRUE, InitHandle(cm, n), mem.content,
                                              DefaultPath, files, e)
                IN  /\ cm' = InitFinal(cm, n)
                    /\ files' = res.files
                    /\ ret' = Ret("init",
                                  IF res.w.status = "Crashed" THEN "Crashed"
                                  ELSE InitStatus(res.w.status),
                                  args, res.w, NoDir)
                    /\ UNCHANGED mem

\* lines 105-198 as an API call
FahrenWrite(cmPresent, path, e) ==
    /\ Running
    /\ LET res == WriteRandomWeights(cmPresent, cm, mem.content, path, files, e)
       IN  /\ files' = res.files
           /\ ret' = Ret("write", res.w.status,
                         [NoArgs EXCEPT !.cm = cmPresent, !.path = path],
                         res.w, NoDir)
    /\ UNCHANGED <<cm, mem>>

\* shutdown without the test of line 61
ShutdownNeverRefuses(c) == FALSE

\* line 60
ShutdownArgsInvalid(cmPresent) == ~cmPresent

\* line 61
ShutdownNotInitialized(c) == c.initialized = 0

\* lines 64-67: free(cm->layers)
FreeLayers(c, m) ==
    IF c.layers # "NULL"
    THEN [state |-> "freed", content |-> <<>>, frees |-> m.frees + 1]
    ELSE m

\* lines 64-72: the handle after the reset
ResetHandle(c) ==
    [c EXCEPT !.layers = "NULL", !.initialized = 0, !.layer_count = 0,
              !.model_type = 0]

\* lines 59-92: fahren_shutdown(cm)
FahrenShutdown(cmPresent, opened, writable) ==
    /\ Running
    /\ LET args == [NoArgs EXCEPT !.cm = cmPresent]
       IN  IF ShutdownArgsInvalid(cmPresent)
           THEN /\ ret' = Ret("shutdown", FAHREN_ERROR_INVALID_ARGUMENT, args, NoWrite, NoDir)
                /\ UNCHANGED <<cm, mem, files>>
           ELSE IF ShutdownNotInitialized(cm)
           THEN /\ ret' = Ret("shutdown", FAHREN_ERROR_NOT_INITIALIZED, args, NoWrite, NoDir)
                /\ UNCHANGED <<cm, mem, files>>
           ELSE /\ mem' = FreeLayers(cm, mem)
                /\ cm' = ResetHandle(cm)
                /\ files' = CleanDirectory(files, opened, writable)
                /\ ret' = Ret("shutdown", FAHREN_SUCCESS, args, NoWrite,
                              [opened |-> opened, writable |-> opened /\ writable])

----------------------------------------------------------------------------
(* Inputs *)

LayerTypes == { FAHREN_LAYER_DENSE, FAHREN_LAYER_CONVOLUTIONAL }

\* every array of n layers with densities in D, any predecessor reference
LayerSeqs(n, D) == [1..n -> { Layer(d, p, t) : d \in D, p \in 0..n, t \in LayerTypes }]

\* the densities the counting is checked on, up to the largest int
Densities == { 0, 1, 2, 3, 4, INT_MAX }

AllSeqs == UNION { LayerSeqs(n, Densities) : n \in 1..MaxLayers }

\* the arrays of the life-cycle runs: the densities [3, 2] of two Dense
\* layers in a chain, one Convolutional layer of density 4, one Dense layer
SampleSeqs ==
    { << Layer(3, 0, FAHREN_LAYER_DENSE), Layer(2, 1, FAHREN_LAYER_DENSE) >>,
      << Layer(4, 0, FAHREN_LAYER_CONVOLUTIONAL) >>,
      << >> }

\* the failures of the life-cycle runs: one of each kind
SampleEnv ==
    { Env("none", 0, TRUE, FALSE), Env("mallocB", 0, TRUE, FALSE),
      Env("fopen", 0, TRUE, FALSE), Env("fwrite", 5, TRUE, FALSE),
      Env("fclose", 0, FALSE, FALSE) }

----------------------------------------------------------------------------
(* The life cycle of a handle: Spec *)

Init ==
    /\ cm = ZeroHandle
    /\ mem = NoArray
    /\ \E present \in { {}, StrayNames } :
         files = [name \in Names |->
                    IF name \in present THEN StrayFile(name) ELSE Absent]
    /\ ret = Ret("none", "none", NoArgs, NoWrite, NoDir)

Next ==
    \/ \E seq \in SampleSeqs, ok \in BOOLEAN : AllocLayers(seq, ok)
    \/ \E c \in BOOLEAN, l \in BOOLEAN, n \in 0..MaxLayers, e \in SampleEnv :
         FahrenInit(c, l, n, e)
    \/ \E c \in BOOLEAN, path \in WritePaths \cup {NoPath}, e \in SampleEnv :
         FahrenWrite(c, path, e)
    \/ \E c \in BOOLEAN, o \in BOOLEAN, w \in BOOLEAN : FahrenShutdown(c, o, w)

Spec == Init /\ [][Next]_vars

(* One handle and its writes under every failure: SpecWrite *)

\* arrays that take the write through each of its paths: no buffer at all,
\* a bias buffer only, both buffers, a product that wraps, a byte size
\* that wraps, and totals that fail the additive check
ExitSeqs ==
    { << Layer(0, 0, FAHREN_LAYER_DENSE) >>,
      << Layer(0, 0, FAHREN_LAYER_DENSE), Layer(3, 1, FAHREN_LAYER_DENSE) >>,
      << Layer(3, 0, FAHREN_LAYER_DENSE), Layer(2, 1, FAHREN_LAYER_DENSE) >>,
      << Layer(INT_MAX, 0, FAHREN_LAYER_DENSE),
         Layer(INT_MAX, 1, FAHREN_LAYER_CONVOLUTIONAL) >>,
      << Layer(INT_MAX, 0, FAHREN_LAYER_DENSE),
         Layer(4, 1, FAHREN_LAYER_CONVOLUTIONAL) >>,
      << Layer(INT_MAX, 0, FAHREN_LAYER_CONVOLUTIONAL),
         Layer(14, 1, FAHREN_LAYER_CONVOLUTIONAL) >> }

InitWrite ==
    /\ cm = ZeroHandle
    /\ \E seq \in ExitSeqs : mem = [state |-> "live", content |-> seq, frees |-> 0]
    /\ files = [name \in Names |-> Absent]
    /\ ret = Ret("none", "none", NoArgs, NoWrite, NoDir)

NextWrite ==
    \/ \E e \in WriteEnv : FahrenInit(TRUE, TRUE, Len(mem.content), e)
    \/ \E e \in WriteEnv : FahrenWrite(TRUE, DefaultPath, e)

SpecWrite == InitWrite /\ [][NextWrite]_vars

(* The counting of every layer array: SpecCount *)

\* no failure of the environment; an out-of-bounds store kills or not
CountEnv == { Env("none", 0, TRUE, FALSE), Env("none", 0, TRUE, TRUE) }

InitCount ==
    /\ cm = ZeroHandle
    /\ \E seq \in AllSeqs : mem = [state |-> "live", content |-> seq, frees |-> 0]
    /\ files = [name \in Names |-> Absent]
    /\ ret = Ret("none", "none", NoArgs, NoWrite, NoDir)

NextCount ==
    \/ \E e \in CountEnv : FahrenInit(TRUE, TRUE, Len(mem.content), e)
    \/ \E e \in CountEnv : FahrenWrite(TRUE, DefaultPath, e)

SpecCount == InitCount /\ [][NextCount]_vars

----------------------------------------------------------------------------
(* The counts as exact integers, from the layer array alone *)

ExactInDim(layers, i) ==
    IF layers[i].previous_layer # 0
    THEN layers[layers[i].previous_layer].density
    ELSE 1

ExactLayerWeights(layers, i) ==
    ExactInDim(layers, i) * layers[i].density
      * (IF layers[i].layer_type = FAHREN_LAYER_CONVOLUTIONAL THEN 9 ELSE 1)

RECURSIVE ExactWeights(_, _)
ExactWeights(layers, n) ==
    IF n = 0 THEN 0 ELSE ExactWeights(layers, n - 1) + ExactLayerWeights(layers, n)

RECURSIVE ExactBiases(_, _)
ExactBiases(layers, n) ==
    IF n = 0 THEN 0 ELSE ExactBiases(layers, n - 1) + layers[n].density

PositiveDensities(layers) == \A i \in DOMAIN layers : layers[i].density > 0

\* the data model's layer sequence: every predecessor is an earlier layer
Chained(layers) == \A i \in DOMAIN layers : layers[i].previous_layer < i

\* the last call ran fahren_write_random_weights past its argument and
\* state checks
WriteRan ==
    /\ ret.op \in {"init", "write"}
    /\ ret.w.status \notin {"none", FAHREN_ERROR_INVALID_ARGUMENT,
                            FAHREN_ERROR_NOT_INITIALIZED}

\* a whole blob of the given counts
ExpectedBlob(tw, tb) ==
    << U32(1178683470), U32(1), U32(0), U32(0), U64(tw), U64(tb) >>
      \o (IF tw > 0 THEN <<Floats(tw)>> ELSE <<>>)
      \o (IF tb > 0 THEN <<Floats(tb)>> ELSE <<>>)

\* a file that starts with a whole blob header
IsBlob(f) ==
    /\ f.kind = "reg"
    /\ Len(f.data) >= 6
    /\ f.data[1] = U32(1178683470)

RECURSIVE IsPrefix(_, _)
IsPrefix(a, b) ==
    \/ a = <<>>
    \/ /\ b # <<>>
       /\ Head(a) = Head(b)
       /\ IsPrefix(Tail(a), Tail(b))

----------------------------------------------------------------------------
(* C1: whenever the exact weight count or the exact bias count of the      *)
(* handle's layers exceeds SIZE_MAX, the write returns ProcessingFailed    *)
(* from the counting loop: it never goes on with a wrapped total, sizes no *)
(* buffer from one and opens no file.  Stated for the sequences of the     *)
(* data model: positive densities, predecessors earlier in the sequence.   *)
C1_OverflowIsRejected ==
    ( /\ WriteRan
      /\ PositiveDensities(mem.content) /\ Chained(mem.content)
      /\ \/ ExactWeights(mem.content, cm.layer_count) > SIZE_MAX
         \/ ExactBiases(mem.content, cm.layer_count) > SIZE_MAX )
    => /\ ret.w.status = FAHREN_ERROR_PROCESSING_FAILED
       /\ ~ret.w.counted
       /\ ~ret.w.heap.w.alloc /\ ~ret.w.heap.b.alloc
       /\ ~ret.w.opened

(* C2: for positive densities whose exact totals fit size_t, the counting  *)
(* loop succeeds with total_weights = the sum of in_dim * out_dim (times 9 *)
(* for a Convolutional layer), in_dim read through previous_layer, and     *)
(* total_biases = the sum of the densities; the totals are a function of   *)
(* the layer array, so counting it again gives them again.                 *)
C2_CountsAreExact ==
    ( /\ WriteRan
      /\ PositiveDensities(mem.content)
      /\ ExactWeights(mem.content, cm.layer_count) <= SIZE_MAX
      /\ ExactBiases(mem.content, cm.layer_count) <= SIZE_MAX )
    => /\ ret.w.counted
       /\ ret.w.total_weights = ExactWeights(mem.content, cm.layer_count)
       /\ ret.w.total_biases = ExactBiases(mem.content, cm.layer_count)

\* two Dense layers of densities [3, 2], the second pointing at the first,
\* counted: 9 weights and 5 biases
C2_Witness ==
    /\ WriteRan
    /\ mem.content = << Layer(3, 0, FAHREN_LAYER_DENSE), Layer(2, 1, FAHREN_LAYER_DENSE) >>
    /\ ret.w.counted
    /\ ret.w.total_weights = 9
    /\ ret.w.total_biases = 5

(* C3: whenever the write returns Success, the file at the destination is  *)
(* the magic, the versions 1, 0, 0, the two counts, total_weights floats   *)
(* and total_biases floats, in this order: 32 + 4 * (total_weights +       *)
(* total_biases) bytes.                                                    *)
C3_SuccessLeavesWholeBlob ==
    ( /\ ret.op \in {"init", "write"}
      /\ ret.w.status = FAHREN_SUCCESS )
    => /\ files[ret.w.path].kind = "reg"
       /\ files[ret.w.path].data = ExpectedBlob(ret.w.total_weights, ret.w.total_biases)
       /\ DataSize(files[ret.w.path].data)
            = 32 + 4 * (ret.w.total_weights + ret.w.total_biases)

(* C7: a write that returns has freed each buffer it allocated exactly     *)
(* once, and freed no buffer it did not allocate, on every exit path.      *)
C7_BuffersReleasedOnce ==
    ( /\ ret.op \in {"init", "write"}
      /\ ret.w.status # "Crashed" )
    => /\ ret.w.heap.w.frees = (IF ret.w.heap.w.alloc THEN 1 ELSE 0)
       /\ ret.w.heap.b.frees = (IF ret.w.heap.b.alloc THEN 1 ELSE 0)

\* the bias allocation failed after the weight buffer was allocated
C7_Witness ==
    /\ ret.op = "write"
    /\ ret.w.status = FAHREN_ERROR_PROCESSING_FAILED
    /\ ret.w.total_biases > 0
    /\ ret.w.heap.w.alloc /\ ret.w.heap.w.frees = 1
    /\ ~ret.w.heap.b.alloc
    /\ ~ret.w.opened

(* C10: once the additive checks have passed, each buffer is asked for 4   *)
(* bytes for every counted element, every store of the fill loops lands    *)
(* inside its buffer, no store goes through a null buffer, and the fill    *)
(* indices end at total_weights and total_biases.  Stated for the          *)
(* sequences of the data model, as C1.                                     *)
C10_FillStaysInBounds ==
    ( /\ WriteRan
      /\ PositiveDensities(mem.content) /\ Chained(mem.content)
      /\ ret.w.counted
      /\ ret.w.heap.w.alloc = (ret.w.total_weights > 0)
      /\ ret.w.heap.b.alloc = (ret.w.total_biases > 0) )
    => /\ AllocBytes(ret.w.total_weights) = 4 * ret.w.total_weights
       /\ AllocBytes(ret.w.total_biases) = 4 * ret.w.total_biases
       /\ ~ret.w.oob
       /\ ~ret.w.nullStore
       /\ ret.w.widx = ret.w.total_weights
       /\ ret.w.bidx = ret.w.total_biases

----------------------------------------------------------------------------
(* The steps of the life cycle, as the claims name them *)

IsWriteCall == \E c \in BOOLEAN, path \in WritePaths \cup {NoPath}, e \in SampleEnv :
                  FahrenWrite(c, path, e)
IsShutdownCall == \E c \in BOOLEAN, o \in BOOLEAN, w \in BOOLEAN : FahrenShutdown(c, o, w)
IsInitCall == \E c \in BOOLEAN, l \in BOOLEAN, n \in 0..MaxLayers, e \in SampleEnv :
                  FahrenInit(c, l, n, e)

(* C4: a write_weights (present handle and path) or a shutdown (present    *)
(* handle) on a handle that is not initialized returns NotInitialized and  *)
(* changes neither the handle, the layer array nor any file; and the       *)
(* handle is initialized exactly from a successful initialize to the next  *)
(* successful shutdown.                                                    *)
C4_NotInitializedHasNoEffect ==
    [][ /\ ( /\ cm.initialized = 0
             /\ \/ IsWriteCall /\ ret'.args.cm /\ ret'.args.path # NoPath
                \/ IsShutdownCall /\ ret'.args.cm )
          => /\ ret'.status = FAHREN_ERROR_NOT_INITIALIZED
             /\ UNCHANGED <<cm, mem, files>>
        /\ (cm.initialized = 0 /\ cm'.initialized = 1)
             => ret'.op = "init" /\ ret'.status = FAHREN_SUCCESS
        /\ (cm.initialized = 1 /\ cm'.initialized = 0)
             => ret'.op = "shutdown" /\ ret'.status = FAHREN_SUCCESS
        /\ (ret'.op = "shutdown" /\ ret'.status = FAHREN_SUCCESS)
             => cm'.initialized = 0 /\ mem'.frees = mem.frees + 1
      ]_vars

\* a shutdown refused after a shutdown: the array was freed once
C4_Witness ==
    /\ ret.op = "shutdown"
    /\ ret.args.cm
    /\ ret.status = FAHREN_ERROR_NOT_INITIALIZED
    /\ cm.initialized = 0
    /\ mem.state = "freed" /\ mem.frees = 1

(* C5: initialize with an absent handle, an absent layer array or          *)
(* layer_count = 0 returns InvalidArgument, leaves the handle, the array   *)
(* and every file unchanged, and runs no write.                            *)
C5_InvalidInitHasNoEffect ==
    [][ ( /\ IsInitCall
          /\ ~ret'.args.cm \/ ~ret'.args.layers \/ ret'.args.layer_count = 0 )
        => /\ ret'.status = FAHREN_ERROR_INVALID_ARGUMENT
           /\ ret'.w = NoWrite
           /\ UNCHANGED <<cm, mem, files>>
      ]_vars

\* initialize refused for layer_count = 0 on a fresh handle with an array
C5_Witness ==
    /\ ret.op = "init"
    /\ ret.args.cm /\ ret.args.layers /\ ret.args.layer_count = 0
    /\ ret.status = FAHREN_ERROR_INVALID_ARGUMENT
    /\ cm = ZeroHandle
    /\ mem.state = "live"
    /\ files[DefaultPath] = Absent

C8_InitStoresThenWritesOnce ==
    [][ ( /\ \E e \in WriteEnv : FahrenInit(TRUE, TRUE, ret'.args.layer_count, e)
          /\ ret'.args.layer_count > 0
          /\ ret'.w.status # "Crashed" )
        => /\ cm'.layers = "array"
           /\ cm'.layer_count = ret'.args.layer_count
           /\ cm'.initialized = 1
           /\ ret'.w.path = "fahren_initial_model.bin"
           /\ ret'.w.status \in {FAHREN_SUCCESS, FAHREN_ERROR_PROCESSING_FAILED}
           /\ ret'.status = FAHREN_SUCCESS
           /\ UNCHANGED mem
      ]_vars

\* initialize returned Success although its write failed
C8_Witness ==
    /\ ret.op = "init"
    /\ ret.args.layer_count > 0
    /\ ret.status = FAHREN_SUCCESS
    /\ ret.w.path = DefaultPath
    /\ ret.w.status = FAHREN_ERROR_PROCESSING_FAILED
    /\ cm.initialized = 1 /\ cm.layers = "array"

(* C9: a successful shutdown removes every regular file of a writable,     *)
(* readable working directory whose name starts with "fahren_" and does    *)
(* not end in ".bin", leaves every file whose name ends in ".bin" or does  *)
(* not start with "fahren_" as it is, and returns Success also when the    *)
(* directory cannot be opened or a file cannot be removed (the other files *)
(* are still removed); a shutdown that returns InvalidArgument or          *)
(* NotInitialized removes nothing.                                         *)
C9_ShutdownRemovesOnlyTransientFiles ==
    [][ IsShutdownCall =>
          IF ret'.args.cm /\ cm.initialized = 1
          THEN /\ ret'.status = FAHREN_SUCCESS
               /\ \A name \in {"fahren_", "fahren_log.bin.tmp", "fahren_weights.dat",
                               "fahren_cache"} :
                    IF files[name].kind = "reg" /\ ret'.dir.opened /\ ret'.dir.writable
                    THEN files'[name] = Absent
                    ELSE files'[name] = files[name]
               /\ \A name \in {"fahren_initial_model.bin", "fahren_.bin", "model.bin",
                               "notes.txt", "my_fahren_tmp"} :
                    files'[name] = files[name]
          ELSE /\ ret'.status \in {FAHREN_ERROR_INVALID_ARGUMENT,
                                   FAHREN_ERROR_NOT_INITIALIZED}
               /\ files' = files
      ]_vars

\* after a successful shutdown: the transient files are gone, the binaries,
\* the foreign files and the directory that could not be removed are there
C9_Witness ==
    /\ ret.op = "shutdown"
    /\ ret.status = FAHREN_SUCCESS
    /\ ret.dir.opened /\ ret.dir.writable
    /\ files["fahren_"] = Absent
    /\ files["fahren_log.bin.tmp"] = Absent
    /\ files["fahren_weights.dat"] = Absent
    /\ files["fahren_cache"] = Dir
    /\ files["fahren_.bin"] = StrayFile("fahren_.bin")
    /\ files["notes.txt"] = StrayFile("notes.txt")
    /\ IsBlob(files[DefaultPath])

====
